---------------------------- MODULE Spec2Model ----------------------------
(***************************************************************************)
(* A model of slogan, a leveled, colorized console logger for Go.           *)
(*                                                                          *)
(* The model follows the most recent revision of the package                *)
(* (src/unnamed/part_001).  Strings are sequences of tokens, so that the    *)
(* empty string is <<>> and concatenation is \o.  The tables that Go keeps  *)
(* in maps (formats, colors, parts) are references into a heap of map       *)
(* objects, the tag table is a Go array and so a value.                     *)
(***************************************************************************)
EXTENDS Integers, Sequences, FiniteSets, TLC

VARIABLES
    Verbosity,      \* verbosity threshold
    ExitOnError,    \* exit on error-or-more-urgent levels
    WarningAsError, \* warning counts as an error
    TraceCaller,    \* annotate lines with the caller location
    CallerBase,     \* print only the base name of the caller's file
    Colorize,       \* global colorization switch
    ForceColorize,  \* colorize even when the output is no terminal
    NoEmpty,        \* suppress empty messages
    isTerminal,     \* terminal capability of the output
    offset,         \* stack-depth offset
    tags,           \* the tag table, a [10]string value
    formats,        \* reference of the format map in force
    colors,         \* reference of the color map in force
    parts,          \* reference of the parts map in force
    heap,           \* contents of the map objects, by kind and reference
    logger,         \* the legacy logger: prefix, flags, output
    start,          \* time reference of AllDone
    last,           \* time reference of ElapsedTime
    now,            \* the clock
    status,         \* "running", "exited" (os.Exit) or "panicked"
    exitCode,       \* exit status once the process has ended
    call,           \* the last call of an entry point: name, arguments, result
    events,         \* what the last call did: lines written, exit, panic
    threads         \* the goroutines that log concurrently: position, registers

vars == <<Verbosity, ExitOnError, WarningAsError, TraceCaller, CallerBase,
          Colorize, ForceColorize, NoEmpty, isTerminal, offset, tags, formats,
          colors, parts, heap, logger, start, last, now, status, exitCode,
          call, events, threads>>

config == <<Verbosity, ExitOnError, WarningAsError, TraceCaller, CallerBase,
            Colorize, ForceColorize, NoEmpty, isTerminal, tags, formats,
            colors, parts, heap, logger>>

-----------------------------------------------------------------------------
(* Bounds of the model *)

\* levels passed to Log range over -ExtraLevels .. Ltrace + ExtraLevels
ExtraLevels == 1

\* the clock runs from 0 to MaxTime
MaxTime == 2

-----------------------------------------------------------------------------
(* Log levels *)

Lsilent == 0
Lemergency == 1
Lalert == 2
Lcritical == 3
Lerror == 4
Lwarning == 5
Lnotice == 6
Linfo == 7
Ldebug == 8
Ltrace == 9

\* flags of the legacy log package
Ldate == 1
Ltime == 2
Lmicroseconds == 4
Llongfile == 8
Lshortfile == 16
LUTC == 32

\* the masks a caller hands to SetFlags: every combination of the flags, and
\* the mask with all bits set
FlagMasks == -1 .. (2 * LUTC - 1)

\* index of the color map reserved for the caller location
CallerColor == 10

\* frames runtime.Caller skips in logfmt before adding the offset
CallerSkip == 3

\* the levels that have a tag
TagLevels == Lsilent .. Ltrace

\* the levels a caller may hand to the exported Log
Levels == (Lsilent - ExtraLevels) .. (Ltrace + ExtraLevels)

\* the thresholds a caller may hand to SetVerbosity
Verbosities == (Lsilent - ExtraLevels - 1) .. (Ltrace + ExtraLevels)

-----------------------------------------------------------------------------
(* Strings *)

\* the messages a caller logs: the empty string and a non-empty one
Msgs == {<<>>, <<"m">>}

\* the prefixes a caller sets
Prefixes == {<<>>, <<"===> ">>}

\* len(s) of a Go string
StrLen(s) == Len(s)

\* the default tag table
DefaultTags ==
    [l \in TagLevels |->
        CASE l = 0 -> <<>>
          [] l = 1 -> <<"emergency">>
          [] l = 2 -> <<"alert    ">>
          [] l = 3 -> <<"critical ">>
          [] l = 4 -> <<"error    ">>
          [] l = 5 -> <<"warning  ">>
          [] l = 6 -> <<"notice   ">>
          [] l = 7 -> <<"info     ">>
          [] l = 8 -> <<"debug    ">>
          [] OTHER -> <<"trace    ">>]

\* a tag table a caller installs with SetTags
UserTags ==
    [l \in TagLevels |-> IF l = 0 THEN <<"app: ">> ELSE <<"level ", ToString(l)>>]

TagTables == {DefaultTags, UserTags}


-----------------------------------------------------------------------------
(* fmt.Sprintf over templates *)

\* A template is a sequence of items: a literal, or a verb applied to the
\* argument of a given index.  explicit tells "%[n]v" from "%v".
Lit(s) == [verb |-> "lit", arg |-> 0, explicit |-> FALSE, lit |-> s]
Verb(v, n) == [verb |-> v, arg |-> n, explicit |-> FALSE, lit |-> ""]
VerbAt(v, n) == [verb |-> v, arg |-> n, explicit |-> TRUE, lit |-> ""]

\* The operands of Sprintf: a string, an int, a time.Duration, a Go value
StrArg(s) ==
    [T |-> "string", v |-> s, plusv |-> s, sharpv |-> <<"\"">> \o s \o <<"\"">>]
IntArg(n) ==
    [T |-> "int", v |-> <<ToString(n)>>, plusv |-> <<ToString(n)>>,
     sharpv |-> <<ToString(n)>>]
DurationArg(d) ==
    [T |-> "time.Duration", v |-> <<ToString(d), "s">>,
     plusv |-> <<ToString(d), "s">>, sharpv |-> <<ToString(d)>>]

\* One operand under one verb; a verb that does not fit the operand's type
\* renders "%!verb(type=value)" instead of failing
FormatArg(verb, a) ==
    CASE verb = "T" -> <<a.T>>
      [] verb = "v" -> a.v
      [] verb = "+v" -> a.plusv
      [] verb = "#v" -> a.sharpv
      [] verb = "s" ->
            IF a.T = "int"
            THEN <<"%!s(int=">> \o a.v \o <<")">>
            ELSE a.v
      [] verb = "d" ->
            IF a.T \in {"int", "time.Duration"}
            THEN a.sharpv
            ELSE <<"%!d(", a.T, "=">> \o a.v \o <<")">>
      [] OTHER -> <<"%!", verb, "(">> \o a.v \o <<")">>

\* One item of a template, given the operands
FormatItem(item, args) ==
    IF item.verb = "lit"
    THEN <<item.lit>>
    ELSE IF item.arg \in DOMAIN args
         THEN FormatArg(item.verb, args[item.arg])
         ELSE <<"%!", item.verb, "(BADINDEX)">>

\* Operands left over are reported unless some verb had an explicit index
ExtraArgs(t, args) ==
    LET used == {t[i].arg : i \in DOMAIN t}
        reordered == \E i \in DOMAIN t : t[i].explicit
    IN  IF ~reordered /\ (\E k \in DOMAIN args : \A u \in used : u < k)
        THEN <<"%!(EXTRA)">>
        ELSE <<>>

RECURSIVE FormatItems(_, _, _)
FormatItems(t, args, i) ==
    IF i > Len(t)
    THEN <<>>
    ELSE FormatItem(t[i], args) \o FormatItems(t, args, i + 1)

Sprintf(t, args) == FormatItems(t, args, 1) \o ExtraArgs(t, args)

-----------------------------------------------------------------------------
(* The maps: formats, colors, parts *)

FormatNames ==
    {"fatal", "trace", "empty", "runtime", "default", "caller", "where",
     "alldone", "elapsed"}

DefaultFormats ==
    [n \in FormatNames |->
        CASE n = "fatal" -> <<Lit("Immediate exit with code "), Verb("d", 1)>>
          [] n = "trace" ->
                <<VerbAt("T", 1), Lit("\n"), Lit(" %v: "), VerbAt("v", 1),
                  Lit("\n"), Lit("\n"), Lit("%v+: "), VerbAt("+v", 1),
                  Lit("\n"), Lit("\n"), Lit("%#v: "), VerbAt("#v", 1)>>
          [] n = "empty" -> <<Verb("#v", 1)>>
          [] n = "runtime" ->
                <<Lit("OS:"), Verb("s", 1), Lit(" ARCH:"), Verb("s", 2),
                  Lit(" CPU:"), Verb("d", 3), Lit(" COMPILER:"), Verb("s", 4),
                  Lit(" ROOT:"), Verb("s", 5)>>
          [] n = "default" ->
                <<Lit("   "), VerbAt("s", 1), Lit(" "), VerbAt("s", 2)>>
          [] n = "caller" ->
                <<Lit("   "), VerbAt("s", 1), Lit(" "), VerbAt("s", 3),
                  Lit("\t "), VerbAt("s", 2)>>
          [] n = "where" -> <<Verb("s", 1), Lit(":"), Verb("d", 2)>>
          [] n = "alldone" -> <<Lit("All done in : "), Verb("s", 1)>>
          [] OTHER -> <<Lit("Elapsed time : "), Verb("s", 1)>>]

\* A format map a caller builds: caller first, as in the README, another
\* default line, and no "fatal" entry
UserFormats ==
    [n \in FormatNames \ {"fatal"} |->
        CASE n = "caller" ->
                <<VerbAt("s", 3), Lit(" "), VerbAt("s", 1), Lit(" "),
                  VerbAt("s", 2), Lit(" ")>>
          [] n = "default" -> <<VerbAt("s", 2), Lit(" <"), VerbAt("s", 1), Lit(">")>>
          [] OTHER -> DefaultFormats[n]]

DefaultColors ==
    [l \in Lsilent .. CallerColor |->
        CASE l = 10 -> "Underline"
          [] l = 9 -> "DarkGray"
          [] l = 8 -> "DarkGray"
          [] l = 7 -> "Purple"
          [] l = 6 -> "Green"
          [] l = 5 -> "Yellow"
          [] l = 4 -> "LightRed"
          [] l = 3 -> "Red"
          [] l = 2 -> "BLightRed"
          [] l = 1 -> "BRed"
          [] OTHER -> ""]

\* A color map a caller builds: an unknown style name, an empty one, and no
\* entry for most levels
UserColors ==
    [l \in {Lsilent, Lerror, Lwarning, Lnotice} |->
        CASE l = Lsilent -> "Blink"
          [] l = Lerror -> "Blue"
          [] l = Lwarning -> "Orange"
          [] OTHER -> ""]

PartNames == {"caller", "tag", "log", "prefix"}

DefaultParts == [p \in PartNames |-> p \in {"caller", "tag"}]

\* A parts map a caller builds: colorize the message, not the tag; no entry
\* for "prefix"
UserParts == [p \in {"caller", "tag", "log"} |-> p \in {"caller", "log"}]

\* References of map objects: 1 is the map the package starts with, 2 a map
\* the caller has built
Refs == {1, 2}

InitHeap ==
    [formats |-> [r \in Refs |-> IF r = 1 THEN DefaultFormats ELSE UserFormats],
     colors |-> [r \in Refs |-> IF r = 1 THEN DefaultColors ELSE UserColors],
     parts |-> [r \in Refs |-> IF r = 1 THEN DefaultParts ELSE UserParts]]

\* m[k] of a Go map: the zero value when the key is absent
FormatAt(name) ==
    LET m == heap.formats[formats]
    IN  IF name \in DOMAIN m THEN m[name] ELSE <<>>

ColorAt(level) ==
    LET m == heap.colors[colors]
    IN  IF level \in DOMAIN m THEN m[level] ELSE ""

PartAt(what) ==
    LET m == heap.parts[parts]
    IN  IF what \in DOMAIN m THEN m[what] ELSE FALSE

-----------------------------------------------------------------------------
(* Colorization *)

\* the style names setcolor dispatches on
KnownStyles ==
    {"Black", "Red", "Green", "Yellow", "Blue", "Purple", "Cyan", "LightGray",
     "DarkGray", "LightRed", "LightGreen", "LightYellow", "LightBlue",
     "LightPurple", "LightCyan", "White",
     "BBlack", "BRed", "BGreen", "BYellow", "BBlue", "BPurple", "BCyan",
     "BLightGray", "BDarkGray", "BLightRed", "BLightGreen", "BLightYellow",
     "BLightBlue", "BLightPurple", "BLightCyan", "BWhite",
     "GBlack", "GRed", "GGreen", "GYellow", "GBlue", "GPurple", "GCyan",
     "GLightGray", "GDarkGray", "GLightRed", "GLightGreen", "GLightYellow",
     "GLightBlue", "GLightPurple", "GLightCyan", "GWhite",
     "Bold", "Dim", "Underline", "Invert", "Hide", "Blink"}

\* the external color primitive: the text between the style's escape
\* sequence and the reset sequence
ApplyStyle(style, str) == <<"\\033[", style>> \o str \o <<"\\033[0m">>

\* Set color from color map
setcolor(what, level, str) ==
    IF ColorAt(level) \in KnownStyles
    THEN ApplyStyle(ColorAt(level), str)
    ELSE str

\* the colorization of the earlier revision src/slogan.go, which does not
\* look at the terminal
colorizeNoTerminalCheck(what, level, str) ==
    IF Colorize /\ PartAt(what)
    THEN setcolor(what, level, str)
    ELSE str

\* Log colorization
colorize(what, level, str) ==
    IF ~isTerminal /\ ~ForceColorize
    THEN str
    ELSE IF Colorize /\ PartAt(what)
         THEN setcolor(what, level, str)
         ELSE str

-----------------------------------------------------------------------------
(* The call stack and runtime.Caller *)

\* a frame: the file and line at which the frame's function is executing
LibFrame(line) == [dir |-> <<"/go/src/slogan/">>, base |-> "slogan.go", line |-> line]

\* the frames below the library: the call in user code, then the runtime
UserFrame == [dir |-> <<"/home/user/app/">>, base |-> "main.go", line |-> 17]
UserStack ==
    <<UserFrame,
      [dir |-> <<"/go/src/runtime/">>, base |-> "proc.go", line |-> 250],
      [dir |-> <<"/go/src/runtime/">>, base |-> "asm_amd64.s", line |-> 1650]>>

\* line of the call to logfmt in Log, and of runtime.Caller in logfmt
LogCallsLogfmt == 405
LogfmtCallsCaller == 431
\* line of the call to Debug on the termination path of Log
LogCallsDebug == 414
\* line of the call to Log in the entry point of level l (Silent .. Debug)
SeverityCallsLog(l) == 315 + 5 * l

\* runtime.Caller(skip) seen from logfmt, stack being the frames above Log:
\* the file and line of the skip-th frame above logfmt, or ok = false
Caller(stack, skip) ==
    LET frames == <<LibFrame(LogfmtCallsCaller), LibFrame(LogCallsLogfmt)>> \o stack
    IN  IF skip >= 0 /\ skip + 1 <= Len(frames)
        THEN [ok |-> TRUE, file |-> frames[skip + 1].dir \o <<frames[skip + 1].base>>,
              line |-> frames[skip + 1].line]
        ELSE [ok |-> FALSE, file |-> <<>>, line |-> 0]

\* path.Base: the last element of the path, "." for the empty path
PathBase(file) == IF file = <<>> THEN <<".">> ELSE <<file[Len(file)]>>

-----------------------------------------------------------------------------
(* The log formatter *)

\* Log formatter.  ctx carries what the enclosing calls have set up: the
\* stack-depth offset, the caller-tracing mode and the frames above Log.
logfmt(level, log, ctx) ==
    LET Tag == tags[level]
        where == Caller(ctx.stack, CallerSkip + ctx.off)
        fn == IF CallerBase THEN PathBase(where.file) ELSE where.file
        CallerStr ==
            colorize("caller", CallerColor,
                     Sprintf(FormatAt("where"), <<StrArg(fn), IntArg(where.line)>>))
    IN  IF ctx.tc
        THEN Sprintf(FormatAt("caller"),
                     <<StrArg(colorize("tag", level, Tag)),
                       StrArg(colorize("log", level, log)),
                       StrArg(CallerStr)>>)
        ELSE Sprintf(FormatAt("default"),
                     <<StrArg(colorize("tag", level, Tag)),
                       StrArg(colorize("log", level, log)),
                       StrArg(<<>>)>>)

-----------------------------------------------------------------------------
(* The main log function *)

\* what a call does, in order: a line handed to the sink, os.Exit, a panic
\* (of tells the line of the caller's message from the fatal diagnostic,
\* off is the stack-depth offset the formatter has read)
WriteEv(level, text, of, off) ==
    [ev |-> "write", level |-> level, of |-> of, prefix |-> logger.prefix,
     to |-> logger.out, text |-> text, code |-> 0, off |-> off]
ExitEv(level) ==
    [ev |-> "exit", level |-> level, of |-> "", prefix |-> <<>>, to |-> "",
     text |-> <<>>, code |-> level, off |-> 0]
PanicEv(level) ==
    [ev |-> "panic", level |-> level, of |-> "", prefix |-> <<>>, to |-> "",
     text |-> <<>>, code |-> 2, off |-> 0]

\* the termination test of the earlier revision src/slogan.go, which does
\* not read WarningAsError
ShouldTerminateNoWarning(level) == (level < Lwarning) /\ ExitOnError

\* the termination test of Log
ShouldTerminate(level) ==
    ((level < Lwarning) \/ (level = Lwarning /\ WarningAsError)) /\ ExitOnError

\* a gate that lets one level more through
ShouldEmitOffByOne(level) == Verbosity + 1 >= level

\* the verbosity gate of Log
ShouldEmit(level) == Verbosity >= level

\* an emptiness test that ignores NoEmpty
AllowAlways(log) == TRUE

\* the emptiness test of Log: allow
Allow(log) == ~(NoEmpty /\ StrLen(log) = 0)

\* the first block of Log: the line written, if any; indexing the tag table
\* with a level it does not have panics
Emit(level, log, ctx) ==
    IF ShouldEmit(level) /\ Allow(log)
    THEN IF level \in TagLevels
         THEN <<WriteEv(level, logfmt(level, log, ctx), ctx.of, ctx.off)>>
         ELSE <<PanicEv(level)>>
    ELSE <<>>

\* the message of the fatal diagnostic
FatalMsg(level) == Sprintf(FormatAt("fatal"), <<IntArg(level)>>)

\* a Log that exits before it writes the diagnostic
LogExitFirst(level, log, ctx) ==
    LET emitted == Emit(level, log, ctx)
    IN  IF \E i \in DOMAIN emitted : emitted[i].ev = "panic"
        THEN [events |-> emitted, status |-> "panicked", code |-> 2, off |-> ctx.off]
        ELSE IF ShouldTerminate(level)
             THEN [events |-> emitted \o <<ExitEv(level)>>, status |-> "exited",
                   code |-> level, off |-> ctx.off + 2]
             ELSE [events |-> emitted, status |-> "running", code |-> 0,
                   off |-> ctx.off]

\* Main log function, as what it does and how it leaves the process.
\* os.Exit runs no deferred call, so the two increments stay.
RECURSIVE Log(_, _, _)
Log(level, log, ctx) ==
    LET emitted == Emit(level, log, ctx)
        panicked == \E i \in DOMAIN emitted : emitted[i].ev = "panic"
        inner == Log(Ldebug, FatalMsg(level),
                     [ctx EXCEPT !.off = @ + 2, !.of = "fatal",
                                 !.stack = <<LibFrame(SeverityCallsLog(Ldebug)),
                                             LibFrame(LogCallsDebug)>> \o @])
    IN  IF panicked
        THEN [events |-> emitted, status |-> "panicked", code |-> 2, off |-> ctx.off]
        ELSE IF ShouldTerminate(level)
             THEN IF inner.status = "running"
                  THEN [events |-> emitted \o inner.events \o <<ExitEv(level)>>,
                        status |-> "exited", code |-> level, off |-> inner.off]
                  ELSE [inner EXCEPT !.events = emitted \o @]
             ELSE [events |-> emitted, status |-> "running", code |-> 0,
                   off |-> ctx.off]

-----------------------------------------------------------------------------
(* Initial state *)

\* the writers a caller hands to SetOutput
Writers == {"stderr", "stdout", "file"}

NoCall == [op |-> "none"]

\* the goroutines of a concurrent run, and a goroutine that has not started
Threads == {"a", "b"}
NoThread ==
    [pc |-> "idle", op |-> "none", reg |-> 0, wrote |-> FALSE, seen |-> 0,
     stale |-> FALSE]

\* The state after package initialization.  Whether stderr is a terminal is
\* up to the environment.
Init ==
    /\ Verbosity = Lwarning
    /\ ExitOnError = FALSE
    /\ WarningAsError = FALSE
    /\ TraceCaller = FALSE
    /\ CallerBase = TRUE
    /\ Colorize = TRUE
    /\ ForceColorize = FALSE
    /\ NoEmpty = FALSE
    /\ isTerminal \in BOOLEAN
    /\ offset = 0
    /\ tags = DefaultTags
    /\ formats = 1
    /\ colors = 1
    /\ parts = 1
    /\ heap = InitHeap
    /\ logger = [prefix |-> <<>>, flags |-> 0, out |-> "stderr"]
    /\ start = 0
    /\ last = 0
    /\ now = 0
    /\ status = "running"
    /\ exitCode = 0
    /\ call = NoCall
    /\ events = <<>>
    /\ threads = [t \in Threads |-> NoThread]

\* the process runs and no call of an entry point is in progress or waits
\* for its caller to take the result
Idle == status = "running" /\ call = NoCall

-----------------------------------------------------------------------------
(* Configuration entry points *)

\* what a call that writes nothing and ends nothing leaves alone
Quiet ==
    events' = <<>> /\ UNCHANGED <<status, exitCode, offset, start, last, now, threads>>

SetVerbosity(level) ==
    /\ Idle
    /\ Verbosity' = level
    /\ call' = [op |-> "SetVerbosity", arg |-> level]
    /\ Quiet
    /\ UNCHANGED <<ExitOnError, WarningAsError, TraceCaller, CallerBase, Colorize,
                   ForceColorize, NoEmpty, isTerminal, tags, formats, colors,
                   parts, heap, logger>>

SetExitOnError(mode) ==
    /\ Idle
    /\ ExitOnError' = mode
    /\ call' = [op |-> "SetExitOnError", arg |-> mode]
    /\ Quiet
    /\ UNCHANGED <<Verbosity, WarningAsError, TraceCaller, CallerBase, Colorize,
                   ForceColorize, NoEmpty, isTerminal, tags, formats, colors,
                   parts, heap, logger>>

SetWarningAsError(mode) ==
    /\ Idle
    /\ WarningAsError' = mode
    /\ call' = [op |-> "SetWarningAsError", arg |-> mode]
    /\ Quiet
    /\ UNCHANGED <<Verbosity, ExitOnError, TraceCaller, CallerBase, Colorize,
                   ForceColorize, NoEmpty, isTerminal, tags, formats, colors,
                   parts, heap, logger>>

SetTraceCaller(mode) ==
    /\ Idle
    /\ TraceCaller' = mode
    /\ call' = [op |-> "SetTraceCaller", arg |-> mode]
    /\ Quiet
    /\ UNCHANGED <<Verbosity, ExitOnError, WarningAsError, CallerBase, Colorize,
                   ForceColorize, NoEmpty, isTerminal, tags, formats, colors,
                   parts, heap, logger>>

SetColor(mode) ==
    /\ Idle
    /\ Colorize' = mode
    /\ call' = [op |-> "SetColor", arg |-> mode]
    /\ Quiet
    /\ UNCHANGED <<Verbosity, ExitOnError, WarningAsError, TraceCaller, CallerBase,
                   ForceColorize, NoEmpty, isTerminal, tags, formats, colors,
                   parts, heap, logger>>

SetForceColor(mode) ==
    /\ Idle
    /\ ForceColorize' = mode
    /\ call' = [op |-> "SetForceColor", arg |-> mode]
    /\ Quiet
    /\ UNCHANGED <<Verbosity, ExitOnError, WarningAsError, TraceCaller, CallerBase,
                   Colorize, NoEmpty, isTerminal, tags, formats, colors,
                   parts, heap, logger>>

SetNoEmpty(mode) ==
    /\ Idle
    /\ NoEmpty' = mode
    /\ call' = [op |-> "SetNoEmpty", arg |-> mode]
    /\ Quiet
    /\ UNCHANGED <<Verbosity, ExitOnError, WarningAsError, TraceCaller, CallerBase,
                   Colorize, ForceColorize, isTerminal, tags, formats, colors,
                   parts, heap, logger>>

GetColors ==
    /\ Idle
    /\ call' = [op |-> "GetColors", ret |-> colors]
    /\ Quiet
    /\ UNCHANGED config

\* a Set* that returns the table it was handed
ReturnedNew(old, n) == n

\* what a Set* call installs (colors = n) and returns (old := colors;
\* return old), the same in SetColors, SetTags, SetFormats and SetParts
Installed(old, n) == n
Returned(old, n) == old

SetColors(n) ==
    /\ Idle
    /\ colors' = Installed(colors, n)
    /\ call' = [op |-> "SetColors", arg |-> n, ret |-> Returned(colors, n)]
    /\ Quiet
    /\ UNCHANGED <<Verbosity, ExitOnError, WarningAsError, TraceCaller, CallerBase,
                   Colorize, ForceColorize, NoEmpty, isTerminal, tags, formats,
                   parts, heap, logger>>

\* a mask test that finds no bit
BitAndNone(flag, bit) == 0

\* flag & bit for a single bit, on two's complement integers
BitAnd(flag, bit) == IF (flag \div bit) % 2 = 1 THEN bit ELSE 0

\* API for logger override, as the modes and the mask of the sink it
\* leaves; m holds them as the call finds them
RECURSIVE SetFlagsFrom(_, _)
SetFlagsFrom(flag, m) ==
    IF BitAnd(flag, Lshortfile) = Lshortfile
    THEN SetFlagsFrom(flag - Lshortfile, [m EXCEPT !.tc = TRUE, !.cb = TRUE])
    ELSE IF BitAnd(flag, Llongfile) = Llongfile
         THEN SetFlagsFrom(flag - Llongfile, [m EXCEPT !.tc = TRUE, !.cb = FALSE])
         ELSE [m EXCEPT !.flags = flag]

SetFlags(flag) ==
    /\ Idle
    /\ LET r == SetFlagsFrom(flag, [tc |-> TraceCaller, cb |-> CallerBase,
                                    flags |-> logger.flags])
       IN  /\ TraceCaller' = r.tc
           /\ CallerBase' = r.cb
           /\ logger' = [logger EXCEPT !.flags = r.flags]
    /\ call' = [op |-> "SetFlags", arg |-> flag, tc |-> TraceCaller,
                cb |-> CallerBase]
    /\ Quiet
    /\ UNCHANGED <<Verbosity, ExitOnError, WarningAsError, Colorize, ForceColorize,
                   NoEmpty, isTerminal, tags, formats, colors, parts, heap>>

\* a SetPrefix that leaves the sink's prefix empty
SinkPrefixNone(prefix) == <<>>

\* the prefix SetPrefix hands to the sink: defer logger.SetPrefix(prefix)
SinkPrefix(prefix) == prefix

SetPrefix(prefix) ==
    /\ Idle
    /\ tags' = [tags EXCEPT ![0] = prefix]
    /\ logger' = [logger EXCEPT !.prefix = SinkPrefix(prefix)]
    /\ call' = [op |-> "SetPrefix", arg |-> prefix, ret |-> tags[0]]
    /\ Quiet
    /\ UNCHANGED <<Verbosity, ExitOnError, WarningAsError, TraceCaller, CallerBase,
                   Colorize, ForceColorize, NoEmpty, isTerminal, formats, colors,
                   parts, heap>>

\* the test of SetOutput: w != os.Stderr || w != os.Stdout
NotStdStream(w) == (w # "stderr") \/ (w # "stdout")

SetOutput(w) ==
    /\ Idle
    /\ isTerminal' = IF NotStdStream(w) THEN FALSE ELSE isTerminal
    /\ logger' = [logger EXCEPT !.out = w]
    /\ call' = [op |-> "SetOutput", arg |-> w, was |-> isTerminal]
    /\ Quiet
    /\ UNCHANGED <<Verbosity, ExitOnError, WarningAsError, TraceCaller, CallerBase,
                   Colorize, ForceColorize, NoEmpty, tags, formats, colors,
                   parts, heap>>

GetTags ==
    /\ Idle
    /\ call' = [op |-> "GetTags", ret |-> tags]
    /\ Quiet
    /\ UNCHANGED config

SetTags(n) ==
    /\ Idle
    /\ tags' = Installed(tags, n)
    /\ call' = [op |-> "SetTags", arg |-> n, ret |-> Returned(tags, n)]
    /\ Quiet
    /\ UNCHANGED <<Verbosity, ExitOnError, WarningAsError, TraceCaller, CallerBase,
                   Colorize, ForceColorize, NoEmpty, isTerminal, formats, colors,
                   parts, heap, logger>>

GetFormats ==
    /\ Idle
    /\ call' = [op |-> "GetFormats", ret |-> formats]
    /\ Quiet
    /\ UNCHANGED config

SetFormats(n) ==
    /\ Idle
    /\ formats' = Installed(formats, n)
    /\ call' = [op |-> "SetFormats", arg |-> n, ret |-> Returned(formats, n)]
    /\ Quiet
    /\ UNCHANGED <<Verbosity, ExitOnError, WarningAsError, TraceCaller, CallerBase,
                   Colorize, ForceColorize, NoEmpty, isTerminal, tags, colors,
                   parts, heap, logger>>

GetParts ==
    /\ Idle
    /\ call' = [op |-> "GetParts", ret |-> parts]
    /\ Quiet
    /\ UNCHANGED config

SetParts(n) ==
    /\ Idle
    /\ parts' = Installed(parts, n)
    /\ call' = [op |-> "SetParts", arg |-> n, ret |-> Returned(parts, n)]
    /\ Quiet
    /\ UNCHANGED <<Verbosity, ExitOnError, WarningAsError, TraceCaller, CallerBase,
                   Colorize, ForceColorize, NoEmpty, isTerminal, tags, formats,
                   colors, heap, logger>>

-----------------------------------------------------------------------------
(* Logging entry points *)

\* the name of the entry point of each level
SeverityName ==
    [l \in Lsilent .. Ldebug |->
        CASE l = 0 -> "Silent"
          [] l = 1 -> "Emergency"
          [] l = 2 -> "Alert"
          [] l = 3 -> "Critical"
          [] l = 4 -> "Error"
          [] l = 5 -> "Warning"
          [] l = 6 -> "Notice"
          [] l = 7 -> "Info"
          [] OTHER -> "Debug"]

\* the context of a call made from user code
UserCtx == [off |-> offset, tc |-> TraceCaller, of |-> "msg", stack |-> UserStack]

\* one more library frame, executing at the given line
Via(ctx, line) == [ctx EXCEPT !.stack = <<LibFrame(line)>> \o @]

\* how a log call leaves the process and the history
Finish(r, c) ==
    /\ status' = r.status
    /\ exitCode' = r.code
    /\ events' = r.events
    /\ call' = c
    /\ UNCHANGED threads

\* a return that runs no deferred decrement
RestoredNever(r) == r.off

\* the offset after a call that raised it by one around its log call: the
\* deferred decrement runs unless the process has exited
Restored(r) == IF r.status = "exited" THEN r.off ELSE r.off - 1

\* Silent, Emergency, Alert, Critical, Error, Warning, Notice, Info, Debug
Severity(l, log) ==
    /\ Idle
    /\ LET r == Log(l, log, Via(UserCtx, SeverityCallsLog(l)))
       IN  /\ Finish(r, [op |-> SeverityName[l], level |-> l, msg |-> log,
                         tc |-> TraceCaller])
           /\ offset' = r.off
    /\ UNCHANGED <<config, start, last, now>>

\* the exported Log, called from user code with any level
LogCall(level, log) ==
    /\ Idle
    /\ LET r == Log(level, log, UserCtx)
       IN  /\ Finish(r, [op |-> "Log", level |-> level, msg |-> log,
                         tc |-> TraceCaller])
           /\ offset' = r.off
    /\ UNCHANGED <<config, start, last, now>>

\* the values a caller traces: an empty slice and a map
TraceValues ==
    {[T |-> "[]string", v |-> <<"[]">>, plusv |-> <<"[]">>,
      sharpv |-> <<"[]string{}">>],
     [T |-> "map[string]string", v |-> <<"map[this is a:map]">>,
      plusv |-> <<"map[this is a:map]">>,
      sharpv |-> <<"map[string]string{\"this is a\":\"map\"}">>]}

\* a test that takes no value for empty
TraceIsEmptyNever(v) == FALSE

\* the message Trace builds, and the line of its call to Log
TraceIsEmpty(v) == v.v = <<"[]">>
TraceMsg(v) ==
    IF TraceIsEmpty(v)
    THEN Sprintf(FormatAt("empty"), <<v>>)
    ELSE Sprintf(FormatAt("trace"), <<v>>)
TraceCallsLog(v) == IF TraceIsEmpty(v) THEN 362 ELSE 364

\* Trace log
Trace(v) ==
    /\ Idle
    /\ LET r == Log(Ltrace, TraceMsg(v), Via(UserCtx, TraceCallsLog(v)))
       IN  /\ Finish(r, [op |-> "Trace", level |-> Ltrace, msg |-> TraceMsg(v), val |-> v,
                         tc |-> TraceCaller])
           /\ offset' = r.off
    /\ UNCHANGED <<config, start, last, now>>

\* line of the call to Trace in TraceCall
TraceCallCallsTrace == 374

\* the caller-tracing mode TraceCall leaves: defer SetTraceCaller(false)
TraceCallerAfter(before) == FALSE

\* Trace log with caller punctually
TraceCall(v) ==
    /\ Idle
    /\ LET ctx == [off |-> offset, tc |-> TRUE, of |-> "msg",
                   stack |-> <<LibFrame(TraceCallsLog(v)),
                               LibFrame(TraceCallCallsTrace)>> \o UserStack]
           r == Log(Ltrace, TraceMsg(v), ctx)
       IN  /\ Finish(r, [op |-> "TraceCall", level |-> Ltrace, msg |-> TraceMsg(v), val |-> v,
                         tc |-> TraceCaller])
           /\ offset' = r.off
           /\ TraceCaller' = IF r.status = "exited"
                             THEN TRUE
                             ELSE TraceCallerAfter(TraceCaller)
    /\ UNCHANGED <<Verbosity, ExitOnError, WarningAsError, CallerBase, Colorize,
                   ForceColorize, NoEmpty, isTerminal, tags, formats, colors,
                   parts, heap, logger, start, last, now>>

\* the message of Runtime
RuntimeMsg ==
    Sprintf(FormatAt("runtime"),
            <<StrArg(<<"linux">>), StrArg(<<"amd64">>), IntArg(4),
              StrArg(<<"gc">>), StrArg(<<"/go">>)>>)

\* line of the call to Debug in Runtime
RuntimeCallsDebug == 383

\* Log runtime infos as debug
Runtime ==
    /\ Idle
    /\ LET ctx == [off |-> offset + 1, tc |-> TraceCaller, of |-> "msg",
                   stack |-> <<LibFrame(SeverityCallsLog(Ldebug)),
                               LibFrame(RuntimeCallsDebug)>> \o UserStack]
           r == Log(Ldebug, RuntimeMsg, ctx)
       IN  /\ Finish(r, [op |-> "Runtime", level |-> Ldebug, msg |-> RuntimeMsg,
                         tc |-> TraceCaller])
           /\ offset' = Restored(r)
    /\ UNCHANGED <<config, start, last, now>>

\* lines of the calls to Notice in AllDone and ElapsedTime
AllDoneCallsNotice == 225
ElapsedTimeCallsNotice == 234

\* a duration counted from the start of the process
SinceBoot(ref) == now

\* time.Since(ref)
Since(ref) == now - ref

\* Notice Time elapsed since start and reset start time reference
AllDone ==
    /\ Idle
    /\ LET msg == Sprintf(FormatAt("alldone"), <<DurationArg(Since(start))>>)
           ctx == [off |-> offset + 1, tc |-> TraceCaller, of |-> "msg",
                   stack |-> <<LibFrame(SeverityCallsLog(Lnotice)),
                               LibFrame(AllDoneCallsNotice)>> \o UserStack]
           r == Log(Lnotice, msg, ctx)
       IN  /\ Finish(r, [op |-> "AllDone", level |-> Lnotice, msg |-> msg,
                         tc |-> TraceCaller, elapsed |-> Since(start)])
           /\ offset' = Restored(r)
           /\ start' = IF r.status = "exited" THEN start ELSE now
    /\ UNCHANGED <<config, last, now>>

\* Notice Time elapsed since last call to this function and reset it
ElapsedTime ==
    /\ Idle
    /\ LET msg == Sprintf(FormatAt("elapsed"), <<DurationArg(Since(last))>>)
           ctx == [off |-> offset + 1, tc |-> TraceCaller, of |-> "msg",
                   stack |-> <<LibFrame(SeverityCallsLog(Lnotice)),
                               LibFrame(ElapsedTimeCallsNotice)>> \o UserStack]
           r == Log(Lnotice, msg, ctx)
       IN  /\ Finish(r, [op |-> "ElapsedTime", level |-> Lnotice, msg |-> msg,
                         tc |-> TraceCaller, elapsed |-> Since(last)])
           /\ offset' = Restored(r)
           /\ last' = IF r.status = "exited" THEN last ELSE now
    /\ UNCHANGED <<config, start, now>>

\* time passes between two calls
Tick ==
    /\ Idle
    /\ now < MaxTime
    /\ now' = now + 1
    /\ UNCHANGED <<config, offset, start, last, status, exitCode, call, events,
                   threads>>

\* the caller takes the result of the last call and goes on
Return ==
    /\ status = "running"
    /\ call # NoCall
    /\ call' = NoCall
    /\ events' = <<>>
    /\ UNCHANGED <<config, offset, start, last, now, status, exitCode, threads>>

-----------------------------------------------------------------------------
(* The caller's own code on the tables it holds *)

\* m[k] = v on a Go map: the key is added when the map has none
MapAssign(m, k, v) == [x \in DOMAIN m \cup {k} |-> IF x = k THEN v ELSE m[x]]

\* the table in force, by kind
InForce(kind) ==
    CASE kind = "formats" -> heap.formats[formats]
      [] kind = "colors" -> heap.colors[colors]
      [] kind = "parts" -> heap.parts[parts]
      [] OTHER -> tags

\* the caller holds the map of this reference: it has built it itself, or
\* the Get* or Set* call that has just returned handed it out
Holds(kind, ref) ==
    \/ ref = 2
    \/ /\ kind = "formats" /\ call.op \in {"GetFormats", "SetFormats"} /\ call.ret = ref
    \/ /\ kind = "colors" /\ call.op \in {"GetColors", "SetColors"} /\ call.ret = ref
    \/ /\ kind = "parts" /\ call.op \in {"GetParts", "SetParts"} /\ call.ret = ref

\* the assignment the caller makes to a map of each kind, as in the README:
\* formats["default"] = ..., colors[4] = "Blue", parts["log"] = true
Edited(kind, m) ==
    CASE kind = "formats" -> MapAssign(m, "default", UserFormats["default"])
      [] kind = "colors" -> MapAssign(m, Lerror, "Blue")
      [] OTHER -> MapAssign(m, "log", TRUE)

\* the caller assigns to an element of a map it holds, with no call of the
\* package
EditMap(kind, ref) ==
    /\ status = "running"
    /\ Holds(kind, ref)
    /\ heap' = [heap EXCEPT ![kind][ref] = Edited(kind, @)]
    /\ call' = [op |-> "Edit", kind |-> kind, ref |-> ref, before |-> InForce(kind)]
    /\ events' = <<>>
    /\ UNCHANGED <<Verbosity, ExitOnError, WarningAsError, TraceCaller, CallerBase,
                   Colorize, ForceColorize, NoEmpty, isTerminal, tags, formats,
                   colors, parts, logger, offset, start, last, now, status,
                   exitCode, threads>>

\* the caller assigns to an element of the tag array GetTags or SetTags has
\* returned: the array is a copy, the package's own is out of reach
EditTags ==
    /\ status = "running"
    /\ call.op \in {"GetTags", "SetTags"}
    /\ call' = [op |-> "Edit", kind |-> "tags", ref |-> 0, before |-> InForce("tags")]
    /\ events' = <<>>
    /\ UNCHANGED <<config, offset, start, last, now, status, exitCode, threads>>

-----------------------------------------------------------------------------
(* Concurrent callers *)

\* the entry points that raise the offset around their log call
OffsetOps == {"Runtime", "AllDone", "ElapsedTime"}

\* the entry points a goroutine calls
ThreadOps == OffsetOps \cup {"Info"}

\* the level of the log call of an entry point, its message, and the
\* library frames between Log and user code
ThreadLevel(op) ==
    CASE op = "Runtime" -> Ldebug
      [] op = "Info" -> Linfo
      [] OTHER -> Lnotice
ThreadMsg(op) ==
    CASE op = "Runtime" -> RuntimeMsg
      [] op = "AllDone" -> Sprintf(FormatAt("alldone"), <<DurationArg(Since(start))>>)
      [] op = "ElapsedTime" -> Sprintf(FormatAt("elapsed"), <<DurationArg(Since(last))>>)
      [] OTHER -> <<"m">>
ThreadStack(op) ==
    CASE op = "Runtime" ->
            <<LibFrame(SeverityCallsLog(Ldebug)), LibFrame(RuntimeCallsDebug)>>
                \o UserStack
      [] op = "AllDone" ->
            <<LibFrame(SeverityCallsLog(Lnotice)), LibFrame(AllDoneCallsNotice)>>
                \o UserStack
      [] op = "ElapsedTime" ->
            <<LibFrame(SeverityCallsLog(Lnotice)), LibFrame(ElapsedTimeCallsNotice)>>
                \o UserStack
      [] OTHER -> <<LibFrame(SeverityCallsLog(Linfo))>> \o UserStack

\* no goroutine has started
AllIdle == \A t \in Threads : threads[t].pc = "idle"

\* what a step of a goroutine leaves alone
ThreadFrame == UNCHANGED <<config, now, status, exitCode, call>>

\* a write that counts one up too many
IncrementedTwice(reg) == reg + 2

\* the values incr_offset and decr_offset write, from the value they read
Incremented(reg) == reg + 1
Decremented(reg) == reg - 1

\* a goroutine calls an entry point
Start(t, op) ==
    /\ Idle
    /\ threads[t].pc = "idle"
    /\ threads' = [threads EXCEPT ![t].op = op,
                                  ![t].pc = IF op \in OffsetOps THEN "incr" ELSE "log"]
    /\ UNCHANGED <<offset, start, last, events>>
    /\ ThreadFrame

\* incr_offset: the read of offset = offset + 1
IncrRead(t) ==
    /\ threads[t].pc = "incr"
    /\ threads' = [threads EXCEPT ![t].reg = offset, ![t].pc = "incr_write"]
    /\ UNCHANGED <<offset, start, last, events>>
    /\ ThreadFrame

\* incr_offset: the write of offset = offset + 1
IncrWrite(t) ==
    /\ threads[t].pc = "incr_write"
    /\ offset' = Incremented(threads[t].reg)
    /\ threads' = [threads EXCEPT ![t].pc = "log",
                                  ![t].stale = @ \/ threads[t].reg # offset]
    /\ UNCHANGED <<start, last, events>>
    /\ ThreadFrame

\* the log call of the entry point; logfmt reads the offset as it is now
LogStep(t) ==
    /\ threads[t].pc = "log"
    /\ LET op == threads[t].op
           r == Log(ThreadLevel(op), ThreadMsg(op),
                    [off |-> offset, tc |-> TraceCaller, of |-> "msg",
                     stack |-> ThreadStack(op)])
       IN  /\ events' = events \o r.events
           /\ threads' = [threads EXCEPT
                              ![t].wrote = r.events # <<>>,
                              ![t].seen = offset,
                              ![t].pc = IF op \in OffsetOps THEN "decr" ELSE "done"]
    /\ UNCHANGED <<offset, start, last>>
    /\ ThreadFrame

\* decr_offset, deferred: the read of offset = offset - 1
DecrRead(t) ==
    /\ threads[t].pc = "decr"
    /\ threads' = [threads EXCEPT ![t].reg = offset, ![t].pc = "decr_write"]
    /\ UNCHANGED <<offset, start, last, events>>
    /\ ThreadFrame

\* decr_offset: the write of offset = offset - 1; resetStart or resetLast,
\* deferred before it, runs next and the entry point returns
DecrWrite(t) ==
    /\ threads[t].pc = "decr_write"
    /\ offset' = Decremented(threads[t].reg)
    /\ threads' = [threads EXCEPT ![t].pc = "done",
                                  ![t].stale = @ \/ threads[t].reg # offset]
    /\ start' = IF threads[t].op = "AllDone" THEN now ELSE start
    /\ last' = IF threads[t].op = "ElapsedTime" THEN now ELSE last
    /\ UNCHANGED events
    /\ ThreadFrame

-----------------------------------------------------------------------------
(* Specifications *)

\* The severity gate: the logging entry points under every setting of the
\* verbosity threshold and of the modes the gate and the formatter read.
Next ==
    \/ \E level \in Verbosities : SetVerbosity(level)
    \/ \E mode \in BOOLEAN : SetExitOnError(mode)
    \/ \E mode \in BOOLEAN : SetWarningAsError(mode)
    \/ \E mode \in BOOLEAN : SetNoEmpty(mode)
    \/ \E mode \in BOOLEAN : SetTraceCaller(mode)
    \/ \E l \in Lsilent .. Ldebug, log \in Msgs : Severity(l, log)
    \/ \E level \in Levels, log \in Msgs : LogCall(level, log)
    \/ \E v \in TraceValues : Trace(v)
    \/ \E v \in TraceValues : TraceCall(v)
    \/ Runtime
    \/ AllDone
    \/ ElapsedTime
    \/ Tick
    \/ Return

Spec == Init /\ [][Next]_vars

\* The configuration registry: the tables, the prefix, the output and the
\* colorization modes, with the lines rendered under them at the default
\* verbosity.
NextRegistry ==
    \/ \E n \in TagTables : SetTags(n)
    \/ GetTags
    \/ \E n \in Refs : SetFormats(n)
    \/ GetFormats
    \/ \E n \in Refs : SetColors(n)
    \/ GetColors
    \/ \E n \in Refs : SetParts(n)
    \/ GetParts
    \/ \E prefix \in Prefixes : SetPrefix(prefix)
    \/ \E w \in Writers : SetOutput(w)
    \/ \E mode \in BOOLEAN : SetColor(mode)
    \/ \E mode \in BOOLEAN : SetForceColor(mode)
    \/ \E mode \in BOOLEAN : SetTraceCaller(mode)
    \/ \E l \in Lsilent .. Ldebug : Severity(l, <<"m">>)
    \/ Return

SpecRegistry == Init /\ [][NextRegistry]_vars

\* The flags of the legacy logger: SetFlags over every mask, from every
\* caller-tracing mode, with the lines rendered under the modes it leaves.
NextFlags ==
    \/ \E flag \in FlagMasks : SetFlags(flag)
    \/ \E mode \in BOOLEAN : SetTraceCaller(mode)
    \/ \E l \in {Lerror, Lwarning} : Severity(l, <<"m">>)
    \/ Return

SpecFlags == Init /\ [][NextFlags]_vars

\* The checkpoints: AllDone and ElapsedTime as time passes, whether or not
\* the verbosity lets their notice through.
NextTiming ==
    \/ \E level \in Verbosities : SetVerbosity(level)
    \/ AllDone
    \/ ElapsedTime
    \/ Tick
    \/ Return

SpecTiming == Init /\ [][NextTiming]_vars

\* Two goroutines that each call one entry point, step by step, after the
\* main goroutine has set the verbosity and the caller-tracing mode.
NextConcurrent ==
    \/ AllIdle /\ \E level \in Verbosities : SetVerbosity(level)
    \/ AllIdle /\ \E mode \in BOOLEAN : SetTraceCaller(mode)
    \/ AllIdle /\ Return
    \/ \E t \in Threads, op \in ThreadOps : Start(t, op)
    \/ \E t \in Threads : IncrRead(t)
    \/ \E t \in Threads : IncrWrite(t)
    \/ \E t \in Threads : LogStep(t)
    \/ \E t \in Threads : DecrRead(t)
    \/ \E t \in Threads : DecrWrite(t)

SpecConcurrent == Init /\ [][NextConcurrent]_vars

\* The tables and the caller's hold on them: Get*, Set*, the caller's
\* assignments to what it holds, and the lines rendered meanwhile.
NextAliasing ==
    \/ \E n \in TagTables : SetTags(n)
    \/ GetTags
    \/ \E n \in Refs : SetFormats(n)
    \/ GetFormats
    \/ \E n \in Refs : SetColors(n)
    \/ GetColors
    \/ \E n \in Refs : SetParts(n)
    \/ GetParts
    \/ \E kind \in {"formats", "colors", "parts"}, ref \in Refs : EditMap(kind, ref)
    \/ EditTags
    \/ Severity(Lerror, <<"m">>)
    \/ Return

SpecAliasing == Init /\ [][NextAliasing]_vars

\* The colorizer as a function of its arguments and of the configuration it
\* reads, from every such configuration.
InitColorize ==
    /\ Verbosity = Lwarning
    /\ ExitOnError = FALSE
    /\ WarningAsError = FALSE
    /\ TraceCaller = FALSE
    /\ CallerBase = TRUE
    /\ Colorize \in BOOLEAN
    /\ ForceColorize \in BOOLEAN
    /\ NoEmpty = FALSE
    /\ isTerminal \in BOOLEAN
    /\ offset = 0
    /\ tags = DefaultTags
    /\ formats = 1
    /\ colors \in Refs
    /\ parts \in Refs
    /\ heap = InitHeap
    /\ logger = [prefix |-> <<>>, flags |-> 0, out |-> "stderr"]
    /\ start = 0
    /\ last = 0
    /\ now = 0
    /\ status = "running"
    /\ exitCode = 0
    /\ call = NoCall
    /\ events = <<>>
    /\ threads = [t \in Threads |-> NoThread]

\* the parts, levels and texts handed to colorize
ColorizeParts == PartNames \cup {"other"}
ColorizeLevels == Lsilent .. CallerColor + ExtraLevels
ColorizeTexts == {<<>>, <<"text">>}

ColorizeCall(what, level, str) ==
    /\ Idle
    /\ call' = [op |-> "colorize", what |-> what, level |-> level, str |-> str,
                ret |-> colorize(what, level, str)]
    /\ Quiet
    /\ UNCHANGED config

NextColorize ==
    \/ \E what \in ColorizeParts, level \in ColorizeLevels, str \in ColorizeTexts :
            ColorizeCall(what, level, str)
    \/ Return

SpecColorize == InitColorize /\ [][NextColorize]_vars

-----------------------------------------------------------------------------
(* Properties of the severity gate *)

\* the names of the logging entry points
SeverityOps ==
    {"Silent", "Emergency", "Alert", "Critical", "Error", "Warning", "Notice",
     "Info", "Debug"}
LogOps == SeverityOps \cup {"Log", "Trace", "TraceCall", "Runtime", "AllDone", "ElapsedTime"}

\* the last call was a log call
Logged == call.op \in LogOps

\* the lines the last call wrote for its own message, and its diagnostics
MsgLines == {i \in DOMAIN events : events[i].ev = "write" /\ events[i].of = "msg"}
FatalLines == {i \in DOMAIN events : events[i].ev = "write" /\ events[i].of = "fatal"}
ExitEvents == {i \in DOMAIN events : events[i].ev = "exit"}

\* the last call ended the process through os.Exit
Terminated == status = "exited"

\* text holds the tokens of piece, in a row
Contains(text, piece) ==
    \E k \in 0 .. Len(text) - Len(piece) :
        \A j \in 1 .. Len(piece) : text[k + j] = piece[j]

C2_TerminatesIffErrorLevel ==
    (Logged /\ call.level \in Lemergency .. Ltrace)
        => /\ Terminated <=>
                (ExitOnError /\ (call.level <= Lerror
                                  \/ (call.level = Lwarning /\ WarningAsError)))
           /\ Terminated => exitCode = call.level
           /\ status # "panicked"

\* a warning that the verbosity gates out ends the process with status 5
C2_Witness ==
    /\ call.op = "Warning"
    /\ Verbosity < Lwarning
    /\ WarningAsError
    /\ Terminated
    /\ exitCode = Lwarning
    /\ MsgLines = {}

\* C3: a call at level 0 never ends the process, and every exit status the
\* gate produces lies in 1..5.
C3_SilentNeverTerminates ==
    /\ (Logged /\ call.level = Lsilent) => ~Terminated
    /\ Terminated => exitCode \in Lemergency .. Lwarning

\* C4: when a log call ends the process, it has written the line of its
\* message first (only if Verbosity >= its level), then exactly one fatal
\* diagnostic naming the level, at debug level and so only when
\* Verbosity >= 8, and then it exits once, with the level as status; the
\* exit is the last thing it does.
C4_MessageThenDiagnosticThenExit ==
    (Logged /\ Terminated)
        => /\ ExitEvents = {Len(events)}
           /\ events[Len(events)].code = call.level
           /\ exitCode = call.level
           /\ MsgLines \subseteq {1}
           /\ MsgLines # {} => Verbosity >= call.level
           /\ Cardinality(FatalLines) = IF Verbosity >= Ldebug THEN 1 ELSE 0
           /\ \A i \in FatalLines :
                /\ i = Cardinality(MsgLines) + 1
                /\ events[i].level = Ldebug
                /\ \E k \in DOMAIN events[i].text :
                      events[i].text[k] = ToString(call.level)
           /\ Len(events) = Cardinality(MsgLines) + Cardinality(FatalLines) + 1

\* an error at verbosity 9: its line, the diagnostic, the exit
C4_Witness ==
    /\ call.op = "Error"
    /\ Terminated
    /\ Len(events) = 3
    /\ events[1].of = "msg"
    /\ events[2].of = "fatal"
    /\ events[3].ev = "exit"

\* C5: with NoEmpty set an empty message writes no line even if
\* Verbosity >= level, and the process ends exactly when it would for a
\* non-empty message at that level; with NoEmpty unset an empty message is
\* gated like any other.
C5_EmptySuppressedButStillTerminates ==
    (Logged /\ call.level \in TagLevels /\ call.msg = <<>>)
        => /\ NoEmpty => MsgLines = {}
           /\ ~NoEmpty =>
                Cardinality(MsgLines) = IF Verbosity >= call.level THEN 1 ELSE 0
           /\ Terminated <=> Log(call.level, <<"m">>, UserCtx).status = "exited"
           /\ call.level \in Lemergency .. Ltrace =>
                (Terminated <=>
                    (ExitOnError /\ (call.level <= Lerror
                                      \/ (call.level = Lwarning /\ WarningAsError))))
           /\ Terminated => exitCode = call.level

\* a suppressed empty error that passes the verbosity gate and still exits
C5_Witness ==
    /\ call.op = "Error"
    /\ call.msg = <<>>
    /\ NoEmpty
    /\ Verbosity >= Lerror
    /\ MsgLines = {}
    /\ Terminated

\* C13: with Verbosity 0 no log call writes a line, neither for its message
\* nor as fatal diagnostic, and a Silent message is never written.
C13_VerbosityZeroWritesNothing ==
    /\ (Logged /\ Verbosity = Lsilent) =>
            \A i \in DOMAIN events : events[i].ev # "write"
    /\ call.op = "Silent" => MsgLines = {}

\* the places of a message where a blank line separates two segments
BlankLines(msg) ==
    {k \in 1 .. Len(msg) - 1 : msg[k] = "\n" /\ msg[k + 1] = "\n"}

C15_NoRuntimeFault ==
    /\ status # "panicked"
    /\ \A i \in DOMAIN events : events[i].ev # "panic"

\* C16: with caller-tracing on, every line a log call writes, its fatal
\* diagnostic included, shows the position in user code of the call to the
\* entry point.
C16_CallerIsUserCallSite ==
    \A i \in DOMAIN events :
        (Logged /\ events[i].ev = "write" /\ (call.tc \/ call.op = "TraceCall"))
            => Contains(events[i].text,
                        <<UserFrame.base, ":", ToString(UserFrame.line)>>)

\* C17: in a single-threaded run the offset is 0 whenever the process runs
\* and no call is in progress; the formatter reads 1 under Runtime, AllDone
\* and ElapsedTime, 2 more for the fatal diagnostic, and 0 for the message
\* of every other log call, whatever came before.
C17_OffsetIsZeroBetweenCalls ==
    /\ status = "running" => offset = 0
    /\ \A i \in DOMAIN events :
            (Logged /\ events[i].ev = "write") =>
                events[i].off = (IF call.op \in OffsetOps THEN 1 ELSE 0)
                                 + (IF events[i].of = "fatal" THEN 2 ELSE 0)

\* Runtime has written its line under offset 1 and has put the offset back
C17_Witness ==
    /\ call.op = "Runtime"
    /\ status = "running"
    /\ Len(events) = 1
    /\ events[1].ev = "write"
    /\ events[1].off = 1
    /\ offset = 0

\* C9: when TraceCall returns, the caller-tracing mode is what it was
\* before the call, and its own line was rendered with caller-tracing on.
C9_TraceCallRestoresMode ==
    (call.op = "TraceCall" /\ status = "running") => TraceCaller = call.tc

-----------------------------------------------------------------------------
(* Properties of the configuration registry *)

\* the literal pieces of a template
Literals(t) == {t[i].lit : i \in {j \in DOMAIN t : t[j].verb = "lit"}}

\* the Get* calls
GetOps == {"GetTags", "GetFormats", "GetColors", "GetParts"}

\* the line a severity call has written is made of the tables in force: the
\* tag of its level, its message, the literal text of the format, and the
\* style of its level around the tag and around the message exactly when
\* that part is to be colorized
RenderedFromTables ==
    \A i \in MsgLines :
        LET text == events[i].text
            fmt == heap.formats[formats][IF TraceCaller THEN "caller" ELSE "default"]
            m == heap.colors[colors]
            style == IF call.level \in DOMAIN m THEN m[call.level] ELSE ""
            on == heap.parts[parts]
            InStyle(part, piece) ==
                Contains(text, <<"\\033[", style>> \o piece \o <<"\\033[0m">>)
                  <=> /\ isTerminal \/ ForceColorize
                      /\ Colorize
                      /\ part \in DOMAIN on /\ on[part]
                      /\ style \in KnownStyles
        IN  /\ Contains(text, tags[call.level])
            /\ Contains(text, call.msg)
            /\ \A lit \in Literals(fmt) : Contains(text, <<lit>>)
            /\ InStyle("tag", tags[call.level])
            /\ InStyle("log", call.msg)

\* C6: SetTags, SetFormats, SetColors and SetParts return the table in
\* force before the call and install their argument; a Get* returns the
\* table in force, and a rendered line is made of the tables in force.
C6_SetReturnsPreviousAndInstalls ==
    [][/\ call'.op = "SetTags" => call'.ret = tags /\ tags' = call'.arg
       /\ call'.op = "SetFormats" => call'.ret = formats /\ formats' = call'.arg
       /\ call'.op = "SetColors" => call'.ret = colors /\ colors' = call'.arg
       /\ call'.op = "SetParts" => call'.ret = parts /\ parts' = call'.arg
       /\ call'.op = "GetTags" => call'.ret = tags'
       /\ call'.op = "GetFormats" => call'.ret = formats'
       /\ call'.op = "GetColors" => call'.ret = colors'
       /\ call'.op = "GetParts" => call'.ret = parts'
       /\ call'.op \in GetOps => UNCHANGED config
       /\ call'.op \in SeverityOps => RenderedFromTables']_vars

\* a line rendered from tables that were all installed by Set* calls
C6_Witness ==
    /\ call.op = "Error"
    /\ MsgLines # {}
    /\ tags = UserTags
    /\ formats = 2
    /\ colors = 2
    /\ parts = 2
    /\ Contains(events[1].text, <<"level ", "4">>)
    /\ Contains(events[1].text, <<"\\033[", "Blue", "m", "\\033[0m">>)
    /\ Contains(events[1].text, <<" <">>)

\* C7: SetPrefix(p) returns slot 0 of the tag table as it was, sets slot 0
\* and the sink's prefix to p and leaves slots 1..9 alone; slot 0 changes
\* only through SetPrefix or SetTags, and a line at level 0 shows it.
C7_SetPrefixWritesSlotZeroAndSink ==
    [][/\ call'.op = "SetPrefix" =>
            /\ call'.ret = tags[0]
            /\ tags'[0] = call'.arg
            /\ logger'.prefix = call'.arg
            /\ \A l \in Lemergency .. Ltrace : tags'[l] = tags[l]
       /\ tags'[0] # tags[0] => call'.op \in {"SetPrefix", "SetTags"}
       /\ call'.op = "Silent" =>
            \A i \in MsgLines' : Contains(events'[i].text, tags'[0])]_vars

\* SetPrefix over the slot 0 that SetTags installed returns that slot
C7_Witness ==
    /\ call.op = "SetPrefix"
    /\ call.arg = <<"===> ">>
    /\ call.ret = <<"app: ">>
    /\ tags[0] = <<"===> ">>
    /\ logger.prefix = <<"===> ">>
    /\ tags[1] = UserTags[1]

\* C19: the prefix the sink puts before every line is slot 0 of the tag
\* table, after any sequence of SetPrefix and SetTags calls.
C19_SinkPrefixIsSlotZero == logger.prefix = tags[0]

\* C10: SetOutput(w) redirects the sink; it sets the terminal capability to
\* false when w is neither stderr nor stdout and leaves it unchanged when w
\* is one of them.
C10_SetOutputKeepsTerminalOnStdStreams ==
    call.op = "SetOutput" =>
        /\ logger.out = call.arg
        /\ call.arg \in {"stderr", "stdout"} => isTerminal = call.was
        /\ call.arg \notin {"stderr", "stdout"} => ~isTerminal

-----------------------------------------------------------------------------
(* Properties of the colorizer *)

\* C8: colorize returns the text unchanged when Colorize is off, or the
\* part is not enabled, or the output is no terminal and ForceColorize is
\* off, or the style of the level is empty, missing or unknown; otherwise,
\* and only then, it returns the text in the style of the level.
C8_ColorizeIsIdentityUnlessAllHold ==
    call.op = "colorize" =>
        LET m == heap.colors[colors]
            on == heap.parts[parts]
            style == IF call.level \in DOMAIN m THEN m[call.level] ELSE ""
            off == \/ ~Colorize
                   \/ ~(call.what \in DOMAIN on /\ on[call.what])
                   \/ ~isTerminal /\ ~ForceColorize
                   \/ style \notin KnownStyles
        IN  /\ off => call.ret = call.str
            /\ ~off => /\ call.ret = ApplyStyle(style, call.str)
                       /\ call.ret # call.str

\* a text that is styled although the output is no terminal, colorization
\* being forced
C8_Witness ==
    /\ call.op = "colorize"
    /\ ~isTerminal
    /\ ForceColorize
    /\ call.ret = <<"\\033[", "Blue", "text", "\\033[0m">>

-----------------------------------------------------------------------------
(* Properties of SetFlags *)

\* the mask has the bit
HasBit(mask, bit) == (mask % (2 * bit)) \div bit = 1

\* C11: SetFlags(f) returns for every mask f and hands to the sink f with
\* the short-file and long-file bits cleared; with only the short-file bit
\* of the two, caller-tracing and base-only are on afterwards; with only the
\* long-file bit, caller-tracing is on and base-only is off; with neither,
\* both modes are as they were.
C11_SetFlagsInterceptsFileBits ==
    call.op = "SetFlags" =>
        LET short == HasBit(call.arg, Lshortfile)
            long == HasBit(call.arg, Llongfile)
        IN  /\ logger.flags = call.arg - (IF short THEN Lshortfile ELSE 0)
                                        - (IF long THEN Llongfile ELSE 0)
            /\ ~HasBit(logger.flags, Lshortfile)
            /\ ~HasBit(logger.flags, Llongfile)
            /\ \A bit \in {Ldate, Ltime, Lmicroseconds, LUTC} :
                    HasBit(logger.flags, bit) <=> HasBit(call.arg, bit)
            /\ (short /\ ~long) => TraceCaller /\ CallerBase
            /\ (long /\ ~short) => TraceCaller /\ ~CallerBase
            /\ (~short /\ ~long) => TraceCaller = call.tc /\ CallerBase = call.cb

\* the long-file flag with the date flag, caller-tracing being off before
C11_Witness ==
    /\ call.op = "SetFlags"
    /\ call.arg = Llongfile + Ldate
    /\ ~call.tc
    /\ call.cb
    /\ logger.flags = Ldate
    /\ TraceCaller
    /\ ~CallerBase

-----------------------------------------------------------------------------
(* Properties of the checkpoints *)

\* the line a checkpoint writes, if the gate lets it through, tells the
\* duration the call has computed
ReportsElapsed ==
    /\ Cardinality(MsgLines) = IF Verbosity >= Lnotice THEN 1 ELSE 0
    /\ \A i \in MsgLines : Contains(events[i].text, <<ToString(call.elapsed), "s">>)

\* C12: AllDone reports the time since the start reference and resets that
\* reference to the current time, ElapsedTime does so with the last
\* reference; the reset happens whether or not the notice is written,
\* AllDone leaves last alone and ElapsedTime leaves start alone, and nothing
\* else moves either reference, so that each call reports the time since the
\* previous call of the same checkpoint.
C12_CheckpointReportsDeltaAndResets ==
    [][/\ call'.op = "AllDone" =>
            /\ call'.elapsed = now - start
            /\ ReportsElapsed'
            /\ start' = now'
            /\ last' = last
       /\ call'.op = "ElapsedTime" =>
            /\ call'.elapsed = now - last
            /\ ReportsElapsed'
            /\ last' = now'
            /\ start' = start
       /\ start' # start => call'.op = "AllDone"
       /\ last' # last => call'.op = "ElapsedTime"]_vars

\* the second AllDone, one unit of time after the first at time 1, reports
\* one unit and not two
C12_Witness ==
    /\ call.op = "AllDone"
    /\ now = 2
    /\ call.elapsed = 1
    /\ start = 2
    /\ last = 0
    /\ Verbosity >= Lnotice
    /\ Cardinality(MsgLines) = 1

-----------------------------------------------------------------------------
(* Properties of concurrent callers *)

\* what a goroutine has added to the offset when its formatter runs
Own(t) == IF threads[t].op \in OffsetOps THEN 1 ELSE 0

\* both goroutines have returned from their entry point
AllDoneThreads == \A t \in Threads : threads[t].pc = "done"

\* C18: nothing guards the offset.  The offset a log call reads can differ
\* from what its own goroutine has added, by the increment of the other
\* goroutine and only when that one raises the offset; and after both calls
\* have returned the offset can be -1 or 1 instead of 0, only when both
\* raised it and one of them wrote over a value the other had changed since
\* the read.
C18_OffsetRaceOnlyThroughOtherThread ==
    /\ \A t \in Threads : \A u \in Threads \ {t} :
            threads[t].wrote =>
                /\ threads[t].seen \in (Own(t) - Own(u)) .. (Own(t) + Own(u))
                /\ threads[t].seen # Own(t) => threads[u].pc # "idle"
    /\ AllDoneThreads =>
            /\ offset \in -1 .. 1
            /\ offset # 0 =>
                    /\ \A t \in Threads : threads[t].op \in OffsetOps
                    /\ \E t \in Threads : threads[t].stale

\* both calls have returned, one has resolved its caller two frames too
\* deep, under the other's increment, and the offset is left at 1
C18_Witness ==
    /\ AllDoneThreads
    /\ threads["a"].op = "Runtime"
    /\ threads["a"].wrote
    /\ threads["a"].seen = 2
    /\ offset = 1
    /\ TraceCaller
    /\ \E i \in DOMAIN events :
            Contains(events[i].text, <<"proc.go", ":", "250">>)

-----------------------------------------------------------------------------
(* Properties of the tables as the caller holds them *)

\* C20: a table handed out by Get* or Set*, or handed in to Set*, is a
\* snapshot: when the caller changes it without a further Set* call, the
\* table in force, which the package renders from and Get* returns, is
\* what it was.
C20_TablesAreSnapshots ==
    call.op = "Edit" => InForce(call.kind) = call.before

=============================================================================
